---- MODULE Spec2Model ----
(***************************************************************************)
(* A model of the MJPEG AVI writer of package mjpeg (src/mjpeg.go).        *)
(*                                                                         *)
(* The data file is a byte sequence with a file offset; New is run one     *)
(* write/seek primitive at a time, in the order of lines 118-207, so that  *)
(* every primitive may meet a failing write or seek.  AddJpeg, AddJpegFile, *)
(* AddImage and Close are the methods of lines 287-318.                    *)
(***************************************************************************)
EXTENDS Integers, Sequences, FiniteSets, TLC

\* ------------------------------------------------------------------ bounds

\* Failing system calls the environment may inject in one run (a transient
\* failure, or the start of a persistent one).
MaxFaults == 1
\* Frames handed to AddJpeg / AddJpegFile / AddImage in one run.
MaxFrames == 2
\* Calls of Close in one run.
MaxCloseCalls == 2

\* ------------------------------------------------------------ byte strings

RIFF == <<82, 73, 70, 70>>
AVI_ == <<65, 86, 73, 32>>
LIST == <<76, 73, 83, 84>>
hdrl == <<104, 100, 114, 108>>
avih == <<97, 118, 105, 104>>
strl == <<115, 116, 114, 108>>
strh == <<115, 116, 114, 104>>
vids == <<118, 105, 100, 115>>
MJPG == <<77, 74, 80, 71>>
strf == <<115, 116, 114, 102>>
strn == <<115, 116, 114, 110>>
movi == <<109, 111, 118, 105>>

\* "Recorded with https://github.com/icza/mjpeg" (43 bytes)
NamePrefix ==
    <<82, 101, 99, 111, 114, 100, 101, 100, 32, 119, 105, 116, 104, 32,
      104, 116, 116, 112, 115, 58, 47, 47, 103, 105, 116, 104, 117, 98, 46,
      99, 111, 109, 47, 105, 99, 122, 97, 47, 109, 106, 112, 101, 103>>
\* " at "
NameAt == <<32, 97, 116, 32>>
\* time.Now().Format("2006-01-02 15:04:05 MST") up to the zone: 19 characters
\* and a space; the zone abbreviation that follows has no fixed length.
TimeStamp ==
    <<50, 48, 50, 54, 45, 49, 49, 45, 48, 52, 32, 48, 57, 58, 52, 49, 58, 48,
      48, 32>>
\* Two zone abbreviations, "UTC" and "CEST".
UTC == <<85, 84, 67>>
CEST == <<67, 69, 83, 84>>

\* An empty 4-byte int value
emptyInt == <<0, 0, 0, 0>>

\* ------------------------------------------------------------- arithmetic

Abs(x) == IF x < 0 THEN -x ELSE x

\* Go's integer division truncates toward zero.
Quot(a, b) ==
    IF (a < 0) = (b < 0) THEN Abs(a) \div Abs(b) ELSE -(Abs(a) \div Abs(b))

\* The four bytes of a non-negative value below 2^31, low byte first.
Bytes4(u) ==
    << u % 256, (u \div 256) % 256, (u \div 65536) % 256,
       (u \div 16777216) % 256 >>

\* binary.LittleEndian.PutUint32(buf4, uint32(n)) for an int32 n: the two's
\* complement of n, low byte first.
PutUint32(n) ==
    IF n >= 0 THEN Bytes4(n)
    ELSE LET b == Bytes4((n + 2147483647) + 1)
         IN  << b[1], b[2], b[3], b[4] + 128 >>

\* A writeInt16 that fills and writes buf4 instead of buf2.
PutUint16IntoBuf4(n) == PutUint32(n)

\* binary.LittleEndian.PutUint16(buf2, uint16(n)) for an int16 n.
PutUint16(n) ==
    LET u == IF n >= 0 THEN n ELSE n + 65536
    IN  << u % 256, (u \div 256) % 256 >>

\* The int32 that four little-endian bytes hold.
Int32Of(b) ==
    IF b[4] < 128
    THEN b[1] + 256 * b[2] + 65536 * b[3] + 16777216 * b[4]
    ELSE ((b[1] + 256 * b[2] + 65536 * b[3] + 16777216 * (b[4] - 128))
          - 2147483647) - 1

\* int32 multiplication: the product modulo 2^32, computed on the bytes of
\* the operands so that no intermediate value leaves 32 bits.
Mul32(x, y) ==
    LET a  == PutUint32(x)
        b  == PutUint32(y)
        c1 == a[1] * b[1]
        c2 == a[1] * b[2] + a[2] * b[1] + (c1 \div 256)
        c3 == a[1] * b[3] + a[2] * b[2] + a[3] * b[1] + (c2 \div 256)
        c4 == a[1] * b[4] + a[2] * b[3] + a[3] * b[2] + a[4] * b[1]
              + (c3 \div 256)
    IN  Int32Of(<< c1 % 256, c2 % 256, c3 % 256, c4 % 256 >>)

\* ------------------------------------------------------------------ inputs

\* The calls of New that are examined: (width, height, fps) and the zone
\* abbreviation time.Now() formats.  fps = 0 and non-positive sizes are
\* calls too, and 40000 * 30000 * 3 does not fit an int32.
NewArgs ==
    { [width |-> 200,   height |-> 100,   fps |-> 2,  zone |-> UTC],
      [width |-> 40000, height |-> 30000, fps |-> 25, zone |-> CEST],
      [width |-> -1,    height |-> 0,     fps |-> -3, zone |-> UTC],
      [width |-> 2,     height |-> 1,     fps |-> 0,  zone |-> CEST] }

\* The frames handed to the writer, of odd and of even length: the data
\* AddJpeg is given, the content of the file AddJpegFile is given, and the
\* JPEG encoding of the image AddImage is given.
Buffers == { <<255, 216, 7, 255, 217>> }
FileData == <<255, 216, 1, 2, 3, 255, 217>>
ImageData == <<255, 216, 9, 9, 255, 217>>

\* --------------------------------------------------- the header program

\* The stream name without the padding space of line 189.
StreamNameUnpadded(zone) == NamePrefix \o NameAt \o TimeStamp \o zone \o <<0>>

\* The stream name of lines 185-192.
StreamName(zone) ==
    LET name == NamePrefix \o NameAt \o TimeStamp \o zone
    IN  IF Len(name) % 2 = 0
        THEN name \o <<32, 0>>      \* padding space plus terminating 0
        ELSE name \o <<0>>          \* terminating 0

\* A statement of the header: a call of writeStr, writeInt32, writeInt16,
\* writeLengthField, finalizeLengthField or currentPos, a test of aw.err, or
\* the final return.
OpStr(l, b)   == [op |-> "str",   s |-> b,    n |-> 0, line |-> l]
OpInt32(l, v) == [op |-> "int",   s |-> <<>>, n |-> v, line |-> l]
OpInt16(l, v) == [op |-> "short", s |-> <<>>, n |-> v, line |-> l]
OpOpen(l)     == [op |-> "open",  s |-> <<>>, n |-> 0, line |-> l]
OpClose(l)    == [op |-> "close", s |-> <<>>, n |-> 0, line |-> l]
OpPos(l)      == [op |-> "pos",   s |-> <<>>, n |-> 0, line |-> l]
OpCheck(l)    == [op |-> "check", s |-> <<>>, n |-> 0, line |-> l]
OpRet(l)      == [op |-> "ret",   s |-> <<>>, n |-> 0, line |-> l]

\* The statements of New from line 118 to line 207, in order; line is the
\* statement's line in src/mjpeg.go.
Header(a) ==
    << OpStr(118, RIFF), OpOpen(119), OpStr(120, AVI_),
       OpStr(121, LIST), OpOpen(122), OpStr(123, hdrl),
       OpStr(124, avih), OpInt32(125, 56),
       OpInt32(126, IF a.fps = 0 THEN 0 ELSE Quot(1000000, a.fps)),
       OpInt32(127, 0), OpInt32(128, 0), OpInt32(129, 16),
       OpPos(130),
       OpInt32(131, 0), OpInt32(132, 0), OpInt32(133, 1), OpInt32(134, 0),
       OpInt32(135, a.width), OpInt32(136, a.height),
       OpInt32(137, 0), OpInt32(138, 0), OpInt32(139, 0), OpInt32(140, 0),
       OpStr(143, LIST), OpOpen(144), OpStr(145, strl),
       OpStr(146, strh), OpInt32(147, 56), OpStr(148, vids), OpStr(149, MJPG),
       OpInt32(150, 0), OpInt32(151, 0), OpInt32(152, 0), OpInt32(153, 1),
       OpInt32(154, a.fps), OpInt32(155, 0),
       OpPos(156),
       OpInt32(157, 0), OpInt32(158, 0), OpInt32(159, -1), OpInt32(160, 0),
       OpInt16(161, 0), OpInt16(162, 0), OpInt16(163, 0), OpInt16(164, 0),
       OpStr(166, strf), OpOpen(167),
       OpInt32(168, 40), OpInt32(169, a.width), OpInt32(170, a.height),
       OpInt16(171, 1), OpInt16(172, 24), OpStr(173, MJPG),
       OpInt32(174, Mul32(Mul32(a.width, a.height), 3)),
       OpInt32(175, 0), OpInt32(176, 0), OpInt32(177, 0), OpInt32(178, 0),
       OpClose(179), OpCheck(180),
       OpStr(184, strn), OpInt32(193, Len(StreamName(a.zone))),
       OpStr(194, StreamName(a.zone)),
       OpClose(195), OpClose(196),
       OpStr(198, LIST), OpOpen(199), OpPos(200), OpStr(201, movi),
       OpCheck(203), OpRet(207) >>

\* ------------------------------------------------------------------- state

VARIABLES
    args,                 \* the arguments of New: width, height, fps, zone
    phase,                \* "start", "header", "open", "failed", "panic"
    pc,                   \* the statement of Header(args) New is at
    err,                  \* aw.err: 0 is nil, else the line whose call failed
    lengthFields,         \* aw.lengthFields
    framesCountFieldPos,  \* aw.framesCountFieldPos
    framesCountFieldPos2, \* aw.framesCountFieldPos2
    moviPos,              \* aw.moviPos
    frames,               \* aw.frames
    avif,                 \* aw.avif: "nil", "open", "closed"
    idxf,                 \* aw.idxf: "nil", "open", "closed"
    avi,                  \* the bytes of the file aviFile
    pos,                  \* the file offset of aw.avif
    idx,                  \* the bytes of the file aviFile + ".idx_"
    aviOnDisk,            \* the file aviFile exists
    idxOnDisk,            \* the file aviFile + ".idx_" exists
    ret,                  \* what the last call returned
    last,                 \* the last primitive or method that ran
    calls,                \* the frames of the add calls that returned nil
    closeCalls,           \* the calls of Close so far
    firstFail,            \* the line of the first header call that failed
    openedBy,             \* the line that pushed each entry of lengthFields
    rmFailed,             \* the files whose os.Remove failed
    faults,               \* failures injected so far
    broken                \* every system call fails from now on

vars ==
    << args, phase, pc, err, lengthFields, framesCountFieldPos,
       framesCountFieldPos2, moviPos, frames, avif, idxf, avi, pos, idx,
       aviOnDisk, idxOnDisk, ret, last, calls, closeCalls, firstFail,
       openedBy, rmFailed, faults, broken >>

writer == << err, lengthFields, framesCountFieldPos, framesCountFieldPos2,
             moviPos, frames >>
files  == << avif, idxf, avi, pos, idx, aviOnDisk, idxOnDisk >>

NoCall == [op |-> "none", line |-> 0, at |-> 0, popped |-> 0, wrote |-> FALSE]

Init ==
    /\ args \in NewArgs
    /\ phase = "start"
    /\ pc = 1
    /\ err = 0
    /\ lengthFields = <<>>
    /\ framesCountFieldPos = 0
    /\ framesCountFieldPos2 = 0
    /\ moviPos = 0
    /\ frames = 0
    /\ avif = "nil"
    /\ idxf = "nil"
    /\ avi = <<>>
    /\ pos = 0
    /\ idx = <<>>
    /\ aviOnDisk = FALSE
    /\ idxOnDisk = FALSE
    /\ ret = "none"
    /\ last = NoCall
    /\ calls = <<>>
    /\ closeCalls = 0
    /\ firstFail = 0
    /\ openedBy = <<>>
    /\ rmFailed = {}
    /\ faults = 0
    /\ broken = FALSE

\* ------------------------------------------------------------- environment

\* A system call (Create, Write, Seek, Close, Remove) may succeed unless the
\* disk is broken, and may fail if the disk is broken or a failure is left
\* to inject.  ok is the call's outcome, f the failures injected before it.
Allowed(ok, f) == IF ok THEN ~broken ELSE broken \/ f < MaxFaults
Spend(ok, f)   == IF ok \/ broken THEN f ELSE f + 1

\* From here on every system call fails.
DiskBreaks ==
    /\ phase \in {"header", "open"}
    /\ ~broken
    /\ faults < MaxFaults
    /\ broken' = TRUE
    /\ faults' = faults + 1
    /\ UNCHANGED << args, phase, pc, writer, openedBy, files, ret, last, calls,
                    closeCalls, firstFail, rmFailed >>

\* File.Write of bytes b at offset p of a file holding d: a write past the
\* end leaves zero bytes in the gap.
FileWrite(d, p, b) ==
    LET gap == IF p > Len(d) THEN [i \in 1..(p - Len(d)) |-> 0] ELSE <<>>
        old == d \o gap
        end == IF p + Len(b) > Len(old) THEN p + Len(b) ELSE Len(old)
    IN  [i \in 1..end |->
            IF i > p /\ i <= p + Len(b) THEN b[i - p] ELSE old[i]]

\* ------------------------------------------------------------ New, part 1

\* The deferred function without lines 99-102: the index file is forgotten.
DeferredAviOnly(a, i, rmA, rmI) ==
    /\ avif' = IF a = "nil" THEN "nil" ELSE "closed"
    /\ aviOnDisk' = IF a = "nil" THEN aviOnDisk ELSE ~rmA
    /\ avi' = IF a # "nil" /\ rmA THEN <<>> ELSE avi
    /\ rmFailed' = rmFailed \cup (IF a # "nil" /\ ~rmA THEN {"avi"} ELSE {})
    /\ UNCHANGED << idxf, idxOnDisk, idx, pos >>

\* The deferred function of lines 86-103 when New returns a non-nil error:
\* a and i are aw.avif and aw.idxf at the return.  A handle is closed
\* whatever Close returns; os.Remove may fail, which is only logged.
Deferred(a, i, rmA, rmI) ==
    /\ avif' = IF a = "nil" THEN "nil" ELSE "closed"
    /\ idxf' = IF i = "nil" THEN "nil" ELSE "closed"
    /\ aviOnDisk' = IF a = "nil" THEN aviOnDisk ELSE ~rmA
    /\ idxOnDisk' = IF i = "nil" THEN idxOnDisk ELSE ~rmI
    /\ avi' = IF a # "nil" /\ rmA THEN <<>> ELSE avi
    /\ idx' = IF i # "nil" /\ rmI THEN <<>> ELSE idx
    /\ pos' = pos
    /\ rmFailed' = rmFailed \cup (IF a # "nil" /\ ~rmA THEN {"avi"} ELSE {})
                            \cup (IF i # "nil" /\ ~rmI THEN {"idx"} ELSE {})

\* Lines 75-112: the two files are created.
NewCreate ==
    /\ phase = "start"
    /\ \E okA, okI, rmA \in BOOLEAN :
        LET f1 == Spend(okA, faults)
            f2 == Spend(okI, f1)
            f3 == Spend(rmA, f2)
        IN  /\ Allowed(okA, faults)
            /\ IF okA THEN Allowed(okI, f1) ELSE okI
            /\ IF okA /\ ~okI THEN Allowed(rmA, f2) ELSE rmA
            /\ IF ~okA
               THEN /\ phase' = "failed"            \* line 107
                    /\ ret' = "err"
                    /\ Deferred("nil", "nil", TRUE, TRUE)
                    /\ faults' = f1
               ELSE IF ~okI
               THEN /\ phase' = "failed"            \* line 111
                    /\ ret' = "err"
                    /\ Deferred("open", "nil", rmA, TRUE)
                    /\ faults' = f3
               ELSE /\ phase' = "header"
                    /\ ret' = "none"
                    /\ avif' = "open"
                    /\ idxf' = "open"
                    /\ aviOnDisk' = TRUE
                    /\ idxOnDisk' = TRUE
                    /\ UNCHANGED << avi, idx, pos, rmFailed >>
                    /\ faults' = f2
    /\ last' = [NoCall EXCEPT !.op = "New"]
    /\ UNCHANGED << args, pc, writer, openedBy, calls, closeCalls, firstFail,
                    broken >>

\* ------------------------------------------------------- write primitives

\* The header program of every call examined, and the statement New is at.
HeaderOf == [a \in NewArgs |-> Header(a)]

\* One chunk written with the primitives, as the header's chunks are, on a
\* data file that is still empty: a tag, writeLengthField, the payload,
\* finalizeLengthField, and then the bytes of next, if any.  The payloads
\* are of odd and of even length; the statements are numbered 1 to 6.
FrameTag == <<48, 48, 100, 99>>
Chunks == [ payload : { <<7>>, <<7, 8>>, <<7, 8, 9>> },
            next : { <<>>, FrameTag } ]

OpStop(l) == [op |-> "stop", s |-> <<>>, n |-> 0, line |-> l]

ChunkSteps(c) ==
    << OpStr(1, FrameTag), OpOpen(2), OpStr(3, c.payload), OpClose(4) >>
    \o (IF c.next = <<>> THEN <<>> ELSE << OpStr(5, c.next) >>)
    \o << OpStop(6) >>

ChunkOf == [c \in Chunks |-> ChunkSteps(c)]

\* The statements that run: those of one chunk, or the header of New.
Program ==
    IF "payload" \in DOMAIN args THEN ChunkOf[args] ELSE HeaderOf[args]

\* The statement New is at when lines 200 and 201 stand in the other order:
\* 'movi' is written first and the position is remembered after it.
insMoviFirst ==
    LET h == Program
    IN  IF h[pc].line = 200 THEN h[pc + 1]
        ELSE IF h[pc].line = 201 THEN h[pc - 1]
        ELSE h[pc]

ins == Program[pc]

InHeader(op) == phase = "header" /\ ins.op = op

\* The first failing call of the header is remembered.
Failed(ok) == IF firstFail = 0 /\ ~ok THEN ins.line ELSE firstFail

Called(name, p, w) ==
    [op |-> name, line |-> ins.line, at |-> pos, popped |-> p, wrote |-> w]

\* writeStr, writeInt32 and writeInt16 have one body: nothing if aw.err is
\* set, else one Write whose error becomes aw.err.  A failing Write is taken
\* to transfer no byte and to leave the file offset where it was.
Write(name, b) ==
    /\ IF err # 0
       THEN /\ UNCHANGED << err, avi, pos, faults, firstFail >>
            /\ last' = Called(name, -1, FALSE)
       ELSE \E ok \in BOOLEAN :
            /\ Allowed(ok, faults)
            /\ faults' = Spend(ok, faults)
            /\ firstFail' = Failed(ok)
            /\ avi' = IF ok THEN FileWrite(avi, pos, b) ELSE avi
            /\ pos' = IF ok THEN pos + Len(b) ELSE pos
            /\ err' = IF ok THEN 0 ELSE ins.line
            /\ last' = Called(name, -1, ok)
    /\ pc' = pc + 1
    /\ UNCHANGED << args, phase, lengthFields, openedBy, framesCountFieldPos,
                    framesCountFieldPos2, moviPos, frames, avif, idxf, idx,
                    aviOnDisk, idxOnDisk, ret, calls, closeCalls, rmFailed,
                    broken >>

\* Lines 211-216.
WriteStr == InHeader("str") /\ Write("writeStr", ins.s)

\* 1000000 / fps of line 126 is evaluated before writeInt32 is entered.
DividesByZero == ins.line = 126 /\ args.fps = 0

\* Lines 219-225.
WriteInt32 ==
    /\ InHeader("int")
    /\ ~DividesByZero
    /\ Write("writeInt32", PutUint32(ins.n))

\* Lines 237-243.
WriteInt16 == InHeader("short") /\ Write("writeInt16", PutUint16(ins.n))

\* Line 126 with fps = 0: integer divide by zero.  The deferred function runs
\* with err = nil and does nothing.
DivideByZero ==
    /\ InHeader("int")
    /\ DividesByZero
    /\ phase' = "panic"
    /\ ret' = "panic"
    /\ last' = Called("New", -1, FALSE)
    /\ UNCHANGED << args, pc, writer, openedBy, files, calls, closeCalls,
                    firstFail, rmFailed, faults, broken >>

\* Lines 282-285: Seek(0, 1) returns the offset and a nil error, or 0 and an
\* error; either way aw.err is assigned.
CurrentPosValue(ok) == IF ok THEN pos ELSE 0
CurrentPosErr(ok)   == IF ok THEN 0 ELSE ins.line

\* Lines 130, 156 and 200: a position is remembered.
CurrentPos ==
    /\ InHeader("pos")
    /\ \E ok \in BOOLEAN :
        /\ Allowed(ok, faults)
        /\ faults' = Spend(ok, faults)
        /\ firstFail' = Failed(ok)
        /\ err' = CurrentPosErr(ok)
        /\ framesCountFieldPos' =
              IF ins.line = 130 THEN CurrentPosValue(ok)
              ELSE framesCountFieldPos
        /\ framesCountFieldPos2' =
              IF ins.line = 156 THEN CurrentPosValue(ok)
              ELSE framesCountFieldPos2
        /\ moviPos' = IF ins.line = 200 THEN CurrentPosValue(ok) ELSE moviPos
    /\ last' = Called("currentPos", -1, FALSE)
    /\ pc' = pc + 1
    /\ UNCHANGED << args, phase, lengthFields, openedBy, frames, files, ret,
                    calls, closeCalls, rmFailed, broken >>

\* Lines 247-258.
WriteLengthField ==
    /\ InHeader("open")
    /\ IF err # 0
       THEN /\ UNCHANGED << err, lengthFields, openedBy, avi, pos, faults,
                            firstFail >>
            /\ last' = Called("writeLengthField", -1, FALSE)
       ELSE \E ok1, ok2 \in BOOLEAN :
            LET f1 == Spend(ok1, faults)
            IN  /\ Allowed(ok1, faults)
                /\ firstFail' = Failed(ok1 /\ ok2)
                /\ IF ok1 THEN Allowed(ok2, f1) ELSE ok2
                /\ IF ~ok1
                   THEN /\ err' = CurrentPosErr(ok1)      \* line 253
                        /\ UNCHANGED << lengthFields, openedBy, avi, pos >>
                        /\ faults' = f1
                        /\ last' = Called("writeLengthField", -1, FALSE)
                   ELSE /\ lengthFields' =
                              Append(lengthFields, CurrentPosValue(ok1))
                        /\ openedBy' = Append(openedBy, ins.line)
                        /\ avi' = IF ok2 THEN FileWrite(avi, pos, emptyInt)
                                  ELSE avi
                        /\ pos' = IF ok2 THEN pos + 4 ELSE pos
                        /\ err' = IF ok2 THEN 0 ELSE ins.line
                        /\ faults' = Spend(ok2, f1)
                        /\ last' = Called("writeLengthField", -1, ok2)
    /\ pc' = pc + 1
    /\ UNCHANGED << args, phase, framesCountFieldPos, framesCountFieldPos2,
                    moviPos, frames, avif, idxf, idx, aviOnDisk, idxOnDisk,
                    ret, calls, closeCalls, rmFailed, broken >>

\* Line 272: the value written into the length field popped at p when
\* currentPos returned cur.
PatchedSize(cur, p) == cur - 4

\* Lines 275-277: the offset writing resumes at.
AlignedEnd(cur) == IF cur % 2 # 0 THEN cur + 1 ELSE cur

\* Lines 264-279.  ok1: the Seek of currentPos; ok2: the Seek to the length
\* field; ok3: the Write of the length; ok4: the Seek back.  There is no test
\* of aw.err on entry, and indexing the empty slice panics.
FinalizeLengthField ==
    /\ InHeader("close")
    /\ \E ok1, ok2, ok3, ok4 \in BOOLEAN :
        LET n   == Len(lengthFields)
            cur == CurrentPosValue(ok1)
            top == lengthFields[n]
            f1  == Spend(ok1, faults)
            f2  == Spend(ok2, f1)
            f3  == Spend(ok3, f2)
            f4  == Spend(ok4, f3)
            at  == IF ok2 THEN top ELSE pos
        IN  /\ Allowed(ok1, faults)
            /\ firstFail' = Failed(ok1 /\ ok2 /\ ok3 /\ ok4)
            /\ IF n > 0 THEN Allowed(ok2, f1) ELSE ok2
            /\ IF n > 0 /\ ok2
               THEN Allowed(ok3, f2) /\ Allowed(ok4, f3)
               ELSE ok3 /\ ok4
            /\ IF n = 0
               THEN /\ phase' = "panic"              \* line 267
                    /\ ret' = "panic"
                    /\ err' = CurrentPosErr(ok1)
                    /\ faults' = f1
                    /\ last' = Called("finalizeLengthField", -1, FALSE)
                    /\ UNCHANGED << pc, lengthFields, openedBy, avi, pos >>
               ELSE /\ lengthFields' = SubSeq(lengthFields, 1, n - 1)
                    /\ openedBy' = SubSeq(openedBy, 1, n - 1)
                    /\ pc' = pc + 1
                    /\ UNCHANGED << phase, ret >>
                    /\ IF ~ok2
                       THEN /\ err' = ins.line            \* line 270
                            /\ faults' = f2
                            /\ last' = Called("finalizeLengthField", top,
                                              FALSE)
                            /\ UNCHANGED << avi, pos >>
                       ELSE /\ avi' = IF ok3
                                      THEN FileWrite(avi, at,
                                             PutUint32(PatchedSize(cur, top)))
                                      ELSE avi
                            /\ pos' = IF ok4 THEN AlignedEnd(cur)
                                      ELSE IF ok3 THEN at + 4 ELSE at
                            /\ err' = IF ok4 THEN 0 ELSE ins.line
                            /\ faults' = f4
                            /\ last' = Called("finalizeLengthField", top, ok3)
    /\ UNCHANGED << args, framesCountFieldPos, framesCountFieldPos2, moviPos,
                    frames, avif, idxf, idx, aviOnDisk, idxOnDisk, calls,
                    closeCalls, rmFailed, broken >>

\* ------------------------------------------------------------ New, part 2

\* Lines 180-182 and 203-205: with aw.err set New returns (nil, aw.err) and
\* the deferred function closes and removes both files.
CheckErr ==
    /\ InHeader("check")
    /\ IF err = 0
       THEN /\ pc' = pc + 1
            /\ UNCHANGED << phase, files, ret, faults, rmFailed >>
       ELSE \E rmA, rmI \in BOOLEAN :
            /\ Allowed(rmA, faults)
            /\ Allowed(rmI, Spend(rmA, faults))
            /\ faults' = Spend(rmI, Spend(rmA, faults))
            /\ Deferred(avif, idxf, rmA, rmI)
            /\ phase' = "failed"
            /\ ret' = "err"
            /\ pc' = pc
    /\ last' = Called("New", -1, FALSE)
    /\ UNCHANGED << args, writer, openedBy, calls, closeCalls, firstFail,
                    broken >>

\* Line 207: New returns the writer and a nil error.
NewReturn ==
    /\ InHeader("ret")
    /\ phase' = "open"
    /\ ret' = "writer"
    /\ last' = Called("New", -1, FALSE)
    /\ UNCHANGED << args, pc, writer, openedBy, files, calls, closeCalls,
                    firstFail, rmFailed, faults, broken >>

\* ----------------------------------------------------------------- methods

Method(name) ==
    [op |-> name, line |-> 0, at |-> pos, popped |-> -1, wrote |-> FALSE]

\* An add method that opens a length field for the frame and never closes it.
AddFrameLeavesFieldOpen(name, data) ==
    /\ phase = "open"
    /\ Len(calls) < MaxFrames
    /\ ret' = "nil"
    /\ calls' = Append(calls, data)
    /\ last' = Method(name)
    /\ lengthFields' = Append(lengthFields, pos)
    /\ openedBy' = Append(openedBy, 0)
    /\ UNCHANGED << args, phase, pc, err, framesCountFieldPos,
                    framesCountFieldPos2, moviPos, frames, files, closeCalls,
                    firstFail, rmFailed, faults, broken >>

\* The three add methods return nil and do nothing else.
AddFrame(name, data) ==
    /\ phase = "open"
    /\ Len(calls) < MaxFrames
    /\ ret' = "nil"
    /\ calls' = Append(calls, data)
    /\ last' = Method(name)
    /\ UNCHANGED << args, phase, pc, writer, openedBy, files, closeCalls,
                    firstFail, rmFailed, faults, broken >>

\* Lines 288-291: the frame is the content of the named file.
AddJpegFile == AddFrame("AddJpegFile", FileData)

\* Lines 294-297.
AddJpeg == \E data \in Buffers : AddFrame("AddJpeg", data)

\* Lines 300-303: the frame is the JPEG encoding of the image.
AddImage == AddFrame("AddImage", ImageData)

\* Close with handles that may be closed again without an error.
CloseTwice ==
    /\ phase = "open"
    /\ closeCalls < MaxCloseCalls
    /\ closeCalls' = closeCalls + 1
    /\ last' = Method("Close")
    /\ \E ok1, ok2, ok3 \in BOOLEAN :
        LET r3 == ok1 /\ ok2 /\ ok3 /\ idxOnDisk
            f1 == Spend(ok1, faults)
            f2 == IF ok1 THEN Spend(ok2, f1) ELSE f1
            f3 == IF ok1 /\ ok2 THEN Spend(ok3, f2) ELSE f2
        IN  /\ Allowed(ok1, faults)
            /\ IF ok1 THEN Allowed(ok2, f1) ELSE ok2
            /\ IF ok1 /\ ok2 THEN Allowed(ok3, f2) ELSE ok3
            /\ avif' = "closed"
            /\ idxf' = IF ok1 THEN "closed" ELSE idxf
            /\ idxOnDisk' = IF r3 THEN FALSE ELSE idxOnDisk
            /\ idx' = IF r3 THEN <<>> ELSE idx
            /\ ret' = IF r3 THEN "nil" ELSE "err"
            /\ rmFailed' = IF ok1 /\ ok2 /\ ~r3 THEN rmFailed \cup {"idx"}
                           ELSE rmFailed
            /\ faults' = f3
    /\ UNCHANGED << args, phase, pc, writer, openedBy, avi, pos, aviOnDisk,
                    calls, firstFail, broken >>

\* Lines 306-318.  File.Close returns an error on a handle that was closed
\* before, and leaves the handle closed whatever it returns.
Close ==
    /\ phase = "open"
    /\ closeCalls < MaxCloseCalls
    /\ closeCalls' = closeCalls + 1
    /\ last' = Method("Close")
    /\ \E ok1, ok2, ok3 \in BOOLEAN :
        LET sys1 == avif = "open"
            r1   == sys1 /\ ok1
            sys2 == r1 /\ idxf = "open"
            r2   == sys2 /\ ok2
            sys3 == r2
            r3   == sys3 /\ ok3 /\ idxOnDisk
            f1   == IF sys1 THEN Spend(ok1, faults) ELSE faults
            f2   == IF sys2 THEN Spend(ok2, f1) ELSE f1
            f3   == IF sys3 THEN Spend(ok3, f2) ELSE f2
        IN  /\ IF sys1 THEN Allowed(ok1, faults) ELSE ok1
            /\ IF sys2 THEN Allowed(ok2, f1) ELSE ok2
            /\ IF sys3 THEN Allowed(ok3, f2) ELSE ok3
            /\ avif' = "closed"
            /\ idxf' = IF r1 THEN "closed" ELSE idxf
            /\ idxOnDisk' = IF r3 THEN FALSE ELSE idxOnDisk
            /\ idx' = IF r3 THEN <<>> ELSE idx
            /\ ret' = IF r3 THEN "nil" ELSE "err"
            /\ rmFailed' = IF sys3 /\ ~r3 THEN rmFailed \cup {"idx"}
                           ELSE rmFailed
            /\ faults' = f3
    /\ UNCHANGED << args, phase, pc, writer, openedBy, avi, pos, aviOnDisk,
                    calls, firstFail, broken >>

\* ----------------------------------------------------------- specification

Next ==
    \/ NewCreate
    \/ WriteStr
    \/ WriteInt32
    \/ WriteInt16
    \/ DivideByZero
    \/ CurrentPos
    \/ WriteLengthField
    \/ FinalizeLengthField
    \/ CheckErr
    \/ NewReturn
    \/ AddJpegFile
    \/ AddJpeg
    \/ AddImage
    \/ Close
    \/ DiskBreaks

Spec == Init /\ [][Next]_vars

\* The primitives alone, writing one chunk to the data file New has just
\* created.  finalizeLengthField meets payloads of odd length here, which
\* the header of New never gives it.
InitChunk ==
    /\ args \in Chunks
    /\ phase = "header"
    /\ pc = 1
    /\ err = 0
    /\ lengthFields = <<>>
    /\ framesCountFieldPos = 0
    /\ framesCountFieldPos2 = 0
    /\ moviPos = 0
    /\ frames = 0
    /\ avif = "open"
    /\ idxf = "open"
    /\ avi = <<>>
    /\ pos = 0
    /\ idx = <<>>
    /\ aviOnDisk = TRUE
    /\ idxOnDisk = TRUE
    /\ ret = "none"
    /\ last = NoCall
    /\ calls = <<>>
    /\ closeCalls = 0
    /\ firstFail = 0
    /\ openedBy = <<>>
    /\ rmFailed = {}
    /\ faults = 0
    /\ broken = FALSE

\* The chunk and what follows it have been written.
ChunkDone ==
    /\ InHeader("stop")
    /\ phase' = "done"
    /\ ret' = IF err = 0 THEN "nil" ELSE "err"
    /\ last' = Called("done", -1, FALSE)
    /\ UNCHANGED << args, pc, writer, openedBy, files, calls, closeCalls,
                    firstFail, rmFailed, faults, broken >>

NextChunk ==
    \/ WriteStr
    \/ WriteLengthField
    \/ FinalizeLengthField
    \/ ChunkDone
    \/ DiskBreaks

SpecChunk == InitChunk /\ [][NextChunk]_vars

\* -------------------------------------------------------------- properties

\* width, height and fps are positive.
ValidArgs == args.width > 0 /\ args.height > 0 /\ args.fps > 0

\* The int32 held by the four bytes at offset p of d; -1 if d ends before.
FieldAt(d, p) ==
    IF p >= 0 /\ p + 4 <= Len(d) THEN Int32Of(SubSeq(d, p + 1, p + 4)) ELSE -1

AddOps == {"AddJpeg", "AddJpegFile", "AddImage"}
PrimitiveOps == {"str", "int", "short", "open", "close", "pos"}

\* The first Close has just returned nil and no system call ever failed.
ClosedOK == last.op = "Close" /\ closeCalls = 1 /\ ret = "nil" /\ faults = 0

\* C1: after N successful add calls and Close, the 4-byte fields at
\* framesCountFieldPos and framesCountFieldPos2 both hold N.
C1_FrameCountFields ==
    (ClosedOK /\ ValidArgs) =>
        /\ FieldAt(avi, framesCountFieldPos) = Len(calls)
        /\ FieldAt(avi, framesCountFieldPos2) = Len(calls)

\* C2: a finalizeLengthField that pops p at write offset c and writes the
\* length leaves the value c - p - 4 in the four bytes at p.
C2_PatchedSize ==
    (last.op = "finalizeLengthField" /\ last.wrote /\ firstFail = 0
        /\ ValidArgs) =>
        FieldAt(avi, last.popped) = last.at - last.popped - 4

\* C3: once aw.err is set, every later primitive call of the header keeps
\* it and changes neither the file nor the length-field stack.
C3_StickyError ==
    [][ (phase = "header" /\ err # 0 /\ ins.op \in PrimitiveOps
            /\ ValidArgs) =>
            /\ err' = err
            /\ avi' = avi
            /\ pos' = pos
            /\ lengthFields' = lengthFields ]_vars

\* C4: when a write or seek of the header failed, New returns a non-nil
\* error and no writer.
C4_FailedStepFailsNew ==
    (firstFail # 0 /\ ValidArgs /\ phase \in {"open", "failed", "panic"}) =>
        (phase = "failed" /\ ret = "err")

\* C5: an add call made after Close returns an error.
C5_AddAfterCloseRejected ==
    (last.op \in AddOps /\ closeCalls > 0 /\ faults = 0 /\ ValidArgs) =>
        ret = "err"

\* C6: every call of Close after the first returns an error and changes
\* neither file, neither handle, nor what is on disk.
C6_SecondCloseRejected ==
    [][ (closeCalls >= 1 /\ closeCalls' = closeCalls + 1) =>
            /\ ret' = "err"
            /\ UNCHANGED << avi, pos, idx, avif, idxf, aviOnDisk,
                            idxOnDisk >> ]_vars

\* A second Close has returned after a first one that failed before it
\* removed the index file.
C6_Witness ==
    closeCalls = 2 /\ last.op = "Close" /\ ret = "err" /\ idxOnDisk

\* The chunk that follows the 'movi' list, whose length field is at
\* moviPos - 4, and the index records it holds if it is an 'idx1' chunk.
idx1 == <<105, 100, 120, 49>>
IndexAt == AlignedEnd(moviPos + FieldAt(avi, moviPos - 4))
HasIndex ==
    /\ FieldAt(avi, moviPos - 4) >= 4
    /\ IndexAt + 8 <= Len(avi)
    /\ SubSeq(avi, IndexAt + 1, IndexAt + 4) = idx1
IndexCount == IF HasIndex THEN FieldAt(avi, IndexAt + 4) \div 16 ELSE 0
IndexOffset(i) == FieldAt(avi, IndexAt + 8 + 16 * (i - 1) + 8)
IndexSize(i) == FieldAt(avi, IndexAt + 8 + 16 * (i - 1) + 12)
\* The bytes record i selects: the payload of the chunk whose header is at
\* its offset from moviPos.
FrameSpan(i) ==
    SubSeq(avi, moviPos + IndexOffset(i) + 8 + 1,
           moviPos + IndexOffset(i) + 8 + IndexSize(i))

\* C7: after N add calls with buffers b1..bN and Close, the index holds N
\* records and record i selects the bytes of bi.
C7_IndexRoundTrip ==
    (ClosedOK /\ ValidArgs) =>
        /\ IndexCount = Len(calls)
        /\ \A i \in 1..Len(calls) : FrameSpan(i) = calls[i]

\* C8: New with a non-positive width, height or fps returns an error, does
\* not panic, and leaves no file behind.
C8_InvalidArgsRejected ==
    (~ValidArgs /\ faults = 0 /\ phase \in {"open", "failed", "panic"}) =>
        (phase = "failed" /\ ret = "err" /\ ~aviOnDisk /\ ~idxOnDisk)

\* C9, as claimed: when New has returned an error no file it created is
\* open or on disk.
C9_NothingLeftBehind ==
    (phase = "failed" /\ ValidArgs) =>
        /\ ret = "err"
        /\ avif # "open" /\ idxf # "open"
        /\ ~aviOnDisk /\ ~idxOnDisk

\* C9, amended: when New has returned an error, every file it created has
\* been closed, and is on disk only if its os.Remove failed.
C9_ClosedAndRemoveTried ==
    phase = "failed" =>
        /\ ret = "err"
        /\ avif # "open" /\ idxf # "open"
        /\ aviOnDisk => "avi" \in rmFailed
        /\ idxOnDisk => "idx" \in rmFailed

\* New has returned an error after a failed header step; both files were
\* created, and both are closed and gone.
C9_Witness ==
    /\ phase = "failed" /\ firstFail # 0
    /\ avif = "closed" /\ idxf = "closed"
    /\ ~aviOnDisk /\ ~idxOnDisk

\* C10, as claimed: the writer New returns holds exactly one length field,
\* the 'movi' placeholder, and frame count 0, whatever is added.
C10_StackHoldsOnlyMovi ==
    (phase = "open" /\ faults = 0 /\ ValidArgs) =>
        (lengthFields = << moviPos - 4 >> /\ frames = 0)

\* C10, amended: the writer New returns has frame count 0 and at most two
\* length fields open; when no header step failed they are the RIFF length
\* field at offset 4 and, above it, the 'movi' placeholder at moviPos - 4;
\* add calls leave the stack as it is.
C10_StackHoldsRiffAndMovi ==
    phase = "open" =>
        /\ frames = 0
        /\ Len(lengthFields) <= 2
        /\ firstFail = 0 => lengthFields = << 4, moviPos - 4 >>

\* Two frames have been added to a writer whose header was written without
\* a failure.
C10_Witness ==
    /\ phase = "open" /\ firstFail = 0 /\ closeCalls = 0
    /\ Len(calls) >= 2
    /\ lengthFields = << 4, moviPos - 4 >>

\* C11: after a successful Close the length-field stack is empty.
C11_StackEmptyAfterClose ==
    (ClosedOK /\ ValidArgs) => lengthFields = <<>>

\* C12: with no frame added, a successful Close leaves the RIFF length field
\* (offset 4) and the 'movi' length field holding their true sizes, an
\* 'idx1' chunk of size 0 after the 'movi' list, and frame counts of 0.
C12_EmptyContainerValid ==
    (ClosedOK /\ ValidArgs /\ calls = <<>>) =>
        /\ FieldAt(avi, 4) = Len(avi) - 8
        /\ FieldAt(avi, moviPos - 4) = 4
        /\ HasIndex
        /\ FieldAt(avi, IndexAt + 4) = 0
        /\ FieldAt(avi, framesCountFieldPos) = 0
        /\ FieldAt(avi, framesCountFieldPos2) = 0

\* New has just returned a writer and none of its writes and seeks failed.
NewDoneClean == phase = "open" /\ last.op = "New" /\ firstFail = 0

\* C14, as claimed: moviPos is the offset right after the 'movi' signature,
\* the write offset when New returns.
C14_MoviPosAfterSignature ==
    (NewDoneClean /\ ValidArgs) =>
        /\ moviPos = pos
        /\ SubSeq(avi, moviPos - 3, moviPos) = movi

\* C14, amended: moviPos is the offset of the first byte of the 'movi'
\* signature, four bytes before the write offset New returns with.
C14_MoviPosAtSignature ==
    phase = "open" =>
        /\ moviPos = pos - 4
        /\ SubSeq(avi, moviPos + 1, moviPos + 4) = movi

\* New has returned a writer after a header written without a failure.
C14_Witness ==
    NewDoneClean /\ ValidArgs /\ moviPos > 0 /\ pos = moviPos + 4

\* C16: when the first Close has returned, with nil or with an error, both
\* handles are closed and the index file is gone unless its os.Remove failed.
C16_CloseReleasesAll ==
    (last.op = "Close" /\ closeCalls = 1 /\ ValidArgs) =>
        /\ avif = "closed"
        /\ idxf = "closed"
        /\ idxOnDisk => "idx" \in rmFailed

\* C17: a finalizeLengthField that ends with aw.err = nil leaves the write
\* offset at the offset held before the call, rounded up to even.
C17_ResumesAtAlignedEnd ==
    (last.op = "finalizeLengthField" /\ phase = "header" /\ err = 0
        /\ ValidArgs) =>
        /\ pos >= last.at
        /\ pos % 2 = 0
        /\ pos - last.at <= 1

\* The offset of the first occurrence of the four bytes tag in d; -1 if none.
TagAt(d, tag) ==
    LET S == { i \in 0..(Len(d) - 4) : SubSeq(d, i + 1, i + 4) = tag }
    IN  IF S = {} THEN -1 ELSE CHOOSE i \in S : \A j \in S : i <= j

\* The four bytes that follow n bytes of payload of the chunk whose tag is
\* at offset c.
TagAfter(d, c, n) == SubSeq(d, c + 8 + n + 1, c + 8 + n + 4)

\* C18: in a New without a failure, 56 bytes lie between the size field of
\* 'avih' and the next tag, 56 between the size field of 'strh' and the next
\* tag, and 40 between the 'strf' length placeholder and its close.
C18_HardCodedSizes ==
    /\ NewDoneClean =>
        /\ FieldAt(avi, TagAt(avi, avih) + 4) = 56
        /\ TagAfter(avi, TagAt(avi, avih), 56) = LIST
        /\ FieldAt(avi, TagAt(avi, strh) + 4) = 56
        /\ TagAfter(avi, TagAt(avi, strh), 56) = strf
    /\ (last.op = "finalizeLengthField" /\ last.line = 179
            /\ firstFail = 0) =>
        /\ SubSeq(avi, last.popped - 3, last.popped) = strf
        /\ last.at - last.popped - 4 = 40

\* New has returned a writer for valid arguments, without a failure.
C18_Witness ==
    NewDoneClean /\ ValidArgs /\ TagAt(avi, strf) > TagAt(avi, strh)

\* C19: the 'strn' record of a New without a failure has an even size
\* field, that many bytes up to the next tag, a zero as its last byte, and
\* the closes of 'strl' and 'hdrl' that follow happen at even offsets.
C19_StreamNameEven ==
    /\ NewDoneClean =>
        LET s == TagAt(avi, strn)
            n == FieldAt(avi, s + 4)
        IN  /\ n > 0
            /\ n % 2 = 0
            /\ avi[s + 8 + n] = 0
            /\ TagAfter(avi, s, n) = LIST
    /\ (last.op = "finalizeLengthField" /\ last.line \in {195, 196}
            /\ firstFail = 0) =>
        last.at % 2 = 0

\* New has returned a writer whose stream name had an odd length before
\* its terminating zero was added (the zone has four letters).
C19_Witness ==
    NewDoneClean /\ Len(args.zone) = 4 /\ TagAt(avi, strn) > 0

\* C20: for positive width, height and fps the image-size field of 'strf'
\* holds width * height * 3 and the frame-delay field of 'avih' holds
\* 1000000 / fps.  The product is compared as v / 3 = width * height, which
\* stays below 2^31 for the calls examined.
C20_NoWrapAround ==
    (NewDoneClean /\ ValidArgs) =>
        LET v == FieldAt(avi, TagAt(avi, strf) + 8 + 20)
        IN  /\ v >= 0
            /\ v % 3 = 0
            /\ v \div 3 = args.width * args.height
            /\ FieldAt(avi, TagAt(avi, avih) + 8) = 1000000 \div args.fps

\* The writeLengthField whose field the finalizeLengthField of a line is
\* written to close: 'strf' (167) at 179, 'strl' (144) at 195, 'hdrl' (122)
\* at 196.
OpenerOf(line) ==
    IF line = 179 THEN 167 ELSE IF line = 195 THEN 144 ELSE 122

\* C15: whenever New is about to run a finalizeLengthField, whatever has
\* failed before, the stack is not empty and its top entry was pushed by the
\* writeLengthField that opened the chunk being closed.
C15_PopsMatchingField ==
    (phase = "header" /\ ins.op = "close" /\ ValidArgs) =>
        /\ lengthFields # <<>>
        /\ openedBy[Len(openedBy)] = OpenerOf(ins.line)

====
